---- MODULE Spec2Model ----
(***************************************************************************)
(* Model of main.py: the haversine distance calculator, get_earthquake     *)
(* (one outbound GET, radius filter, magnitude sort, catch-all handler)    *)
(* and the /api/earthquakes handler.                                       *)
(*                                                                         *)
(* Units.  Distances are integers in 10^-5 km, rounded values are integers *)
(* in tenths, depths are integers in 10^-2 km, magnitudes are integers in  *)
(* tenths, epoch times are integers (ms in the feed, s for the clock).     *)
(* An optional value (Python None) is <<>>, a present value v is <<v>>.    *)
(***************************************************************************)
EXTENDS Integers, Sequences, FiniteSets, TLC

VARIABLES
    tz,        \* UTC offset (seconds) of the time zone the process runs in
    callers,   \* invocations the web layer runs
    pc,        \* position of each invocation
    gets,      \* number of outbound GETs each invocation has issued
    waited,    \* seconds each invocation has been blocked in requests.get
               \* (the timer is gone, 0, once requests.get is over)
    data,      \* features of the decoded response
    idx,       \* loop position in data
    nearby,    \* nearby_earthquakes, the list under construction
    result,    \* value returned by get_earthquake
    outcome,   \* how get_earthquake ended: "none", "returned" or "raised"
    error,     \* what the except clause caught ("none" if nothing)
    now,       \* what datetime.utcnow() gave the API handler (epoch s)
    response   \* body the API handler sent

vars == <<tz, callers, pc, gets, waited, data, idx, nearby, result, outcome,
          error, now, response>>

(***************************************************************************)
(* Bounds                                                                  *)
(***************************************************************************)
NumInv == 2
MaxFeatures == 3
MaxConcFeatures == 1

Inv == 1..NumInv

None == <<>>
Some(v) == <<v>>

(***************************************************************************)
(* Program constants                                                       *)
(***************************************************************************)
\* SF_LAT and SF_LON of main.py (an identifier cannot begin with SF_)
SFLAT == "37.7749"
SFLON == "-122.4194"
RADIUS_KM == 200
TIMEOUT == 10

KmUnit == 10^5
DepthUnit == 10^2

(***************************************************************************)
(* calculate_distance, tabulated on the points the feeds below use.  Each  *)
(* entry is the value main.py's calculate_distance returns for            *)
(* (SFLAT, SFLON, lat, lon), truncated to 10^-5 km; the third entry is   *)
(* the float 200.0 exactly.                                                *)
(***************************************************************************)
Haversine(lat, lon) ==
    CASE lat = "37.7749"          /\ lon = "-122.4194" -> 0
      [] lat = "38.2249"          /\ lon = "-122.4194" -> 5003771
      [] lat = "39.4574542140668" /\ lon = "-123.2331" -> 20000000
      [] lat = "39.5732"          /\ lon = "-122.4194" -> 19996183
      [] lat = "39.5736"          /\ lon = "-122.4194" -> 20000631
      [] lat = "36.0"             /\ lon = "-120.6"    -> 25519938

\* every call in main.py passes (SF_LAT, SF_LON) as the first point
calculate_distance(lat1, lon1, lat2, lon2) == Haversine(lat2, lon2)

(***************************************************************************)
(* round(x, 1): x is an integer count of 1/unit; the result is in tenths,  *)
(* ties go to the even tenth.                                              *)
(***************************************************************************)
Round1(x, unit) ==
    LET q == (x * 10) \div unit
        r == (x * 10) % unit
    IN  IF 2 * r < unit THEN q
        ELSE IF 2 * r > unit THEN q + 1
        ELSE IF q % 2 = 0 THEN q ELSE q + 1

InRadiusStrict(distance) == distance < RADIUS_KM * KmUnit
InRadiusBox(distance) == TRUE
InRadius(distance) == distance <= RADIUS_KM * KmUnit

(***************************************************************************)
(* datetime: broken-down time from a count of seconds (proleptic           *)
(* Gregorian calendar), fromtimestamp (local zone), utcnow, strftime.      *)
(***************************************************************************)
CivilFromDays(z) ==
    LET zz  == z + 719468
        era == zz \div 146097
        doe == zz - era * 146097
        yoe == (doe - doe \div 1460 + doe \div 36524 - doe \div 146096) \div 365
        doy == doe - (365 * yoe + yoe \div 4 - yoe \div 100)
        mp  == (5 * doy + 2) \div 153
        d   == doy - (153 * mp + 2) \div 5 + 1
        m   == IF mp < 10 THEN mp + 3 ELSE mp - 9
        y   == yoe + era * 400 + (IF m <= 2 THEN 1 ELSE 0)
    IN  [year |-> y, month |-> m, day |-> d]

BrokenDown(secs) ==
    LET days == secs \div 86400
        rem  == secs % 86400
        c    == CivilFromDays(days)
    IN  [year |-> c.year, month |-> c.month, day |-> c.day,
         hour |-> rem \div 3600, minute |-> (rem % 3600) \div 60,
         second |-> rem % 60]

fromtimestamp(secs) == BrokenDown(secs + tz)
utcnow(clock) == BrokenDown(clock)

\* strftime('%Y-%m-%d %H:%M:%S UTC'): the fields in order, then the literal
strftime(dt) ==
    <<dt.year, dt.month, dt.day, dt.hour, dt.minute, dt.second, "UTC">>

(***************************************************************************)
(* Feed features.  shape tells which part of the GeoJSON feature is        *)
(* missing; the fields of a missing part are never read.                   *)
(***************************************************************************)
Feature(shape, lat, lon, depth, mag, place, time, url) ==
    [shape |-> shape, lat |-> lat, lon |-> lon, depth |-> depth,
     mag |-> mag, place |-> place, time |-> time, url |-> url,
     alert |-> None, felt |-> None, tsunami |-> Some(0)]

Near50     == Feature("ok", "38.2249", "-122.4194", 725, Some(30),
                      Some("near50"), Some(0), Some("u1"))
Far250     == Feature("ok", "36.0", "-120.6", 1000, Some(55),
                      Some("far250"), Some(86399999), Some("u2"))
Edge199    == Feature("ok", "39.5732", "-122.4194", 1175, Some(55),
                      Some("edge199"), Some(86399999), None)
Edge200    == Feature("ok", "39.4574542140668", "-123.2331", 1000, None,
                      Some("edge200"), Some(2000000123), Some("u4"))
Centre     == Feature("ok", "37.7749", "-122.4194", 0, Some(0),
                      Some("centre"), Some(2000000123), Some("u5"))
NegMag     == Feature("ok", "38.2249", "-122.4194", 1000, Some(-10),
                      Some("negmag"), Some(0), Some("u6"))
Past200    == Feature("ok", "39.5736", "-122.4194", 1000, Some(40),
                      Some("past200"), Some(0), Some("u7"))
NoGeometry == Feature("no_geometry", "38.2249", "-122.4194", 1000, Some(30),
                      Some("nogeom"), Some(0), None)
NoCoords   == Feature("no_coordinates", "38.2249", "-122.4194", 1000,
                      Some(30), Some("nocoords"), Some(0), None)
NoProps    == Feature("no_properties", "38.2249", "-122.4194", 1000, None,
                      Some("noprops"), None, None)
NoPropsFar == Feature("no_properties", "36.0", "-120.6", 1000, None,
                      Some("nopropsfar"), None, None)
NoTime     == Feature("ok", "37.7749", "-122.4194", 1000, Some(30),
                      Some("notime"), None, Some("u12"))

Catalogue == {Near50, Far250, Edge199, Edge200, Centre, NegMag, Past200,
              NoGeometry, NoCoords, NoProps, NoPropsFar, NoTime}
ConcCatalogue == {Near50, Far250}

Clocks == {1709251199, 1709251200}
TzOffsets == {-28800, 0}

SeqsUpTo(S, n) == UNION {[1..k -> S] : k \in 0..n}

\* feature collections the feed answers with in a run
FeedPool ==
    IF Cardinality(callers) = 1 THEN SeqsUpTo(Catalogue, MaxFeatures)
    ELSE SeqsUpTo(ConcCatalogue, MaxConcFeatures)

(***************************************************************************)
(* Body of the for loop, per feature                                       *)
(***************************************************************************)
Distance(f) == calculate_distance(SFLAT, SFLON, f.lat, f.lon)

\* the subscript or arithmetic that raises, if any
FeatureFault(f) ==
    \/ f.shape \in {"no_geometry", "no_coordinates"}
    \/ /\ InRadius(Distance(f))
       /\ \/ f.shape = "no_properties"
          \/ f.time = None

earthquake_info(f) ==
    [magnitude   |-> f.mag,
     place       |-> f.place,
     time        |-> strftime(fromtimestamp(f.time[1] \div 1000)),
     distance_km |-> Round1(Distance(f), KmUnit),
     depth_km    |-> Round1(f.depth, DepthUnit),
     url         |-> f.url,
     alert       |-> f.alert,
     felt        |-> f.felt,
     tsunami     |-> f.tsunami]

(***************************************************************************)
(* nearby_earthquakes.sort(key=..., reverse=True): stable, descending       *)
(***************************************************************************)
SortKeyNoneHigh(x) ==
    IF x.magnitude = None THEN 100 ELSE x.magnitude[1]
SortKey(x) ==
    IF x.magnitude = None THEN 0
    ELSE IF x.magnitude[1] = 0 THEN 0 ELSE x.magnitude[1]

KeepAheadAscending(y, x) == SortKey(y) <= SortKey(x)
KeepAhead(y, x) == SortKey(y) >= SortKey(x)

RECURSIVE Insert(_, _)
Insert(x, s) ==
    IF s = <<>> THEN <<x>>
    ELSE IF KeepAhead(Head(s), x) THEN <<Head(s)>> \o Insert(x, Tail(s))
    ELSE <<x>> \o s

RECURSIVE SortDescending(_)
SortDescending(s) ==
    IF s = <<>> THEN <<>>
    ELSE Insert(s[Len(s)], SortDescending(SubSeq(s, 1, Len(s) - 1)))

(***************************************************************************)
(* except Exception: print, return []                                      *)
(***************************************************************************)
ExceptResultPartial(i) == nearby[i]
ExceptResult(i) == <<>>

ExceptOutcomeRaise == "raised"
ExceptOutcome == "returned"

Except(i, what) ==
    /\ error' = [error EXCEPT ![i] = what]
    /\ result' = [result EXCEPT ![i] = ExceptResult(i)]
    /\ outcome' = [outcome EXCEPT ![i] = ExceptOutcome]
    /\ pc' = [pc EXCEPT ![i] = ExceptOutcome]
    /\ waited' = [waited EXCEPT ![i] = 0]

SharedList(i) ==
    IF \E j \in Inv : j # i
    THEN nearby[CHOOSE j \in Inv : j # i] ELSE <<>>
NewList(i) == <<>>

TimedOutNever(w) == FALSE
TimedOut(w) == w >= TIMEOUT

NoResponse == [status |-> 0]

ApiResponseLocalClock(earthquakes, clock) ==
    [status       |-> 200,
     count        |-> Len(earthquakes),
     earthquakes  |-> earthquakes,
     last_updated |-> strftime(fromtimestamp(clock))]
ApiResponse(earthquakes, clock) ==
    [status       |-> 200,
     count        |-> Len(earthquakes),
     earthquakes  |-> earthquakes,
     last_updated |-> strftime(utcnow(clock))]

(***************************************************************************)
(* Initial states                                                          *)
(***************************************************************************)
InitWith(cs) ==
    /\ tz \in TzOffsets
    /\ callers = cs
    /\ pc = [i \in Inv |-> "idle"]
    /\ gets = [i \in Inv |-> 0]
    /\ waited = [i \in Inv |-> 0]
    /\ data = [i \in Inv |-> <<>>]
    /\ idx = [i \in Inv |-> 0]
    /\ nearby = [i \in Inv |-> <<>>]
    /\ result = [i \in Inv |-> <<>>]
    /\ outcome = [i \in Inv |-> "none"]
    /\ error = [i \in Inv |-> "none"]
    /\ now = [i \in Inv |-> 0]
    /\ response = [i \in Inv |-> NoResponse]

Init == InitWith({1})
ConcInit == InitWith(Inv)
\* two overlapping invocations
PairInit == InitWith({i \in Inv : i <= 2})

(***************************************************************************)
(* Actions                                                                 *)
(***************************************************************************)
\* /api/earthquakes is requested; get_earthquake runs up to requests.get
Call(i) ==
    /\ i \in callers
    /\ pc[i] = "idle"
    /\ pc' = [pc EXCEPT ![i] = "waiting"]
    /\ gets' = [gets EXCEPT ![i] = @ + 1]
    /\ UNCHANGED <<tz, callers, waited, data, idx, nearby, result, outcome,
                   error, now, response>>

\* a second passes without an answer
Wait(i) ==
    /\ pc[i] = "waiting"
    /\ waited[i] < TIMEOUT
    /\ waited' = [waited EXCEPT ![i] = @ + 1]
    /\ UNCHANGED <<tz, callers, pc, gets, data, idx, nearby, result, outcome,
                   error, now, response>>

\* the feed answers 200 with a JSON object; feed is data.get('features', []),
\* empty also when the object has no 'features'
RecvOK(i) ==
    /\ pc[i] = "waiting"
    /\ waited[i] < TIMEOUT
    /\ \E feed \in FeedPool :
         data' = [data EXCEPT ![i] = feed]
    /\ waited' = [waited EXCEPT ![i] = 0]
    /\ nearby' = [nearby EXCEPT ![i] = NewList(i)]
    /\ idx' = [idx EXCEPT ![i] = 1]
    /\ pc' = [pc EXCEPT ![i] = "loop"]
    /\ UNCHANGED <<tz, callers, gets, result, outcome, error, now, response>>

\* the feed answers with a non-success status: raise_for_status raises
RecvHTTPError(i) ==
    /\ pc[i] = "waiting"
    /\ waited[i] < TIMEOUT
    /\ Except(i, "http_status")
    /\ UNCHANGED <<tz, callers, gets, data, idx, nearby, now, response>>

\* the body is not JSON, or not a JSON object: json() or data.get raises
RecvMalformed(i) ==
    /\ pc[i] = "waiting"
    /\ waited[i] < TIMEOUT
    /\ Except(i, "payload")
    /\ UNCHANGED <<tz, callers, gets, data, idx, nearby, now, response>>

\* connection failure: requests.get raises
NetworkError(i) ==
    /\ pc[i] = "waiting"
    /\ waited[i] < TIMEOUT
    /\ Except(i, "network")
    /\ UNCHANGED <<tz, callers, gets, data, idx, nearby, now, response>>

\* timeout=10 expires: requests.get raises
Timeout(i) ==
    /\ pc[i] = "waiting"
    /\ TimedOut(waited[i])
    /\ Except(i, "timeout")
    /\ UNCHANGED <<tz, callers, gets, data, idx, nearby, now, response>>

\* one iteration of the for loop
LoopStep(i) ==
    /\ pc[i] = "loop"
    /\ idx[i] <= Len(data[i])
    /\ LET f == data[i][idx[i]] IN
         IF FeatureFault(f)
         THEN /\ Except(i, "feature")
              /\ UNCHANGED <<idx, nearby>>
         ELSE /\ nearby' = [nearby EXCEPT ![i] =
                              IF InRadius(Distance(f))
                              THEN Append(@, earthquake_info(f)) ELSE @]
              /\ idx' = [idx EXCEPT ![i] = @ + 1]
              /\ UNCHANGED <<pc, waited, result, outcome, error>>
    /\ UNCHANGED <<tz, callers, gets, data, now, response>>

\* the loop is over: sort and return
SortReturn(i) ==
    /\ pc[i] = "loop"
    /\ idx[i] > Len(data[i])
    /\ nearby' = [nearby EXCEPT ![i] = SortDescending(@)]
    /\ result' = [result EXCEPT ![i] = SortDescending(nearby[i])]
    /\ outcome' = [outcome EXCEPT ![i] = "returned"]
    /\ pc' = [pc EXCEPT ![i] = "returned"]
    /\ UNCHANGED <<tz, callers, gets, waited, data, idx, error, now, response>>

\* get_earthquakes_api builds the JSON response
Respond(i) ==
    /\ pc[i] = "returned"
    /\ \E clock \in Clocks :
         /\ now' = [now EXCEPT ![i] = clock]
         /\ response' = [response EXCEPT ![i] = ApiResponse(result[i], clock)]
    /\ pc' = [pc EXCEPT ![i] = "done"]
    /\ UNCHANGED <<tz, callers, gets, waited, data, idx, nearby, result,
                   outcome, error>>

Run(i) ==
    \/ Wait(i)
    \/ RecvOK(i)
    \/ RecvHTTPError(i)
    \/ RecvMalformed(i)
    \/ NetworkError(i)
    \/ Timeout(i)
    \/ LoopStep(i)
    \/ SortReturn(i)
    \/ Respond(i)

Next == \E i \in Inv : Call(i) \/ Run(i)

Spec == Init /\ [][Next]_vars
ConcSpec == ConcInit /\ [][Next]_vars
FairSpec == PairInit /\ [][Next]_vars /\ \A i \in Inv : WF_vars(Run(i))

(***************************************************************************)
(* Properties                                                              *)
(***************************************************************************)
Finished(i) == pc[i] \in {"returned", "done"}

Places(s) == {s[k].place : k \in DOMAIN s}
Occurrences(s, p) == Cardinality({k \in DOMAIN s : s[k].place = p})

\* the feature's distance from the reference point is at most 200 km
Within200(f) == Haversine(f.lat, f.lon) <= 200 * KmUnit

WellFormed(f) == f.shape = "ok" /\ f.time # None

\* reading the feature raises: geometry or coordinates missing, or
\* properties or time missing on a feature that passes the radius test
Faults(f) ==
    \/ f.shape \in {"no_geometry", "no_coordinates"}
    \/ Within200(f) /\ (f.shape = "no_properties" \/ f.time = None)

MagOrZero(r) == IF r.magnitude = None THEN 0 ELSE r.magnitude[1]

\* C1: every record of a returned list, and of the API response built from
\* it, has a distance_km that is non-negative and at most 200.0
C1_DistanceWithinRadius ==
    \A i \in Inv :
        /\ Finished(i) =>
             \A k \in DOMAIN result[i] :
                 /\ result[i][k].distance_km >= 0
                 /\ result[i][k].distance_km <= 200 * 10
        /\ pc[i] = "done" =>
             \A k \in DOMAIN response[i].earthquakes :
                 /\ response[i].earthquakes[k].distance_km >= 0
                 /\ response[i].earthquakes[k].distance_km <= 200 * 10

\* a returned list holding the feature at exactly 200 km and the one at
\* 199.96 km, both reported as 200.0
C1_Witness ==
    \E i \in Inv :
        /\ pc[i] = "done"
        /\ \E k, l \in DOMAIN result[i] :
              /\ result[i][k].place = Edge200.place
              /\ result[i][l].place = Edge199.place
              /\ result[i][k].distance_km = 2000
              /\ result[i][l].distance_km = 2000

\* C2: a returned list is non-increasing in magnitude with an absent
\* magnitude counted as 0; feed magnitudes [3.0, None, 5.5] come back as
\* [5.5, 3.0, None]
C2_SortedByMagnitude ==
    \A i \in Inv :
        Finished(i) =>
          /\ \A k, l \in DOMAIN result[i] :
                 k < l => MagOrZero(result[i][k]) >= MagOrZero(result[i][l])
          /\ data[i] = <<Near50, Edge200, Edge199>> =>
                 [k \in DOMAIN result[i] |-> result[i][k].magnitude]
                     = <<Some(55), Some(30), None>>

C2_Witness ==
    \E i \in Inv :
        /\ Finished(i)
        /\ data[i] = <<Near50, Edge200, Edge199>>
        /\ Len(result[i]) = 3

\* C3: when the fetch succeeds and every feature is well formed, the returned
\* list has exactly one record per feature within 200 km and none for a
\* feature farther away
C3_ExactlyInRadius ==
    \A i \in Inv :
        ( /\ Finished(i)
          /\ error[i] = "none"
          /\ \A k \in DOMAIN data[i] : WellFormed(data[i][k]) )
        =>
        /\ Len(result[i]) =
               Cardinality({k \in DOMAIN data[i] : Within200(data[i][k])})
        /\ \A p \in Places(data[i]) \cup Places(result[i]) :
               Occurrences(result[i], p) =
                   Cardinality({k \in DOMAIN data[i] :
                                   /\ data[i][k].place = p
                                   /\ Within200(data[i][k])})

\* the 50 km feature is kept, the 250 km one dropped
C3_Witness ==
    \E i \in Inv :
        /\ Finished(i)
        /\ data[i] = <<Near50, Far250>>
        /\ Len(result[i]) = 1
        /\ result[i][1].place = Near50.place

\* C4: on any failure get_earthquake returns the empty list: it does not
\* raise, returns nothing of the list built so far, and has issued at most
\* one GET
C4_FailureReturnsEmpty ==
    \A i \in Inv :
        /\ gets[i] <= 1
        /\ pc[i] # "raised"
        /\ outcome[i] # "raised"
        /\ error[i] # "none" =>
              /\ Finished(i)
              /\ outcome[i] = "returned"
              /\ result[i] = <<>>

\* a failure after some records had been built
C4_Witness ==
    \E i \in Inv :
        /\ error[i] = "feature"
        /\ nearby[i] # <<>>
        /\ pc[i] = "returned"
        /\ result[i] = <<>>
        /\ gets[i] = 1

\* the string '%Y-%m-%d %H:%M:%S UTC' of the two clock values
UTCStringOf(clock) ==
    IF clock = 1709251200 THEN <<2024, 3, 1, 0, 0, 0, "UTC">>
    ELSE <<2024, 2, 29, 23, 59, 59, "UTC">>

FeedFailed(i) == error[i] \in {"timeout", "http_status"}

EmptySuccess(j) ==
    /\ error[j] = "none"
    /\ pc[j] = "done"
    /\ \A k \in DOMAIN data[j] : ~Within200(data[j][k])

\* C5: when the feed times out or answers HTTP 500 the API response is the
\* success response with count 0, no earthquakes and the current time, equal
\* to the response for a feed with no feature within 200 km at the same clock
C5_FailureLooksEmpty ==
    \A i \in Inv :
        (FeedFailed(i) /\ pc[i] \in {"done", "raised"}) =>
          /\ response[i] = [status |-> 200, count |-> 0, earthquakes |-> <<>>,
                            last_updated |-> UTCStringOf(now[i])]
          /\ \A j \in Inv :
                 (EmptySuccess(j) /\ now[j] = now[i]) =>
                     response[j] = response[i]

\* one invocation timed out, another got a feed with only a far feature, and
\* both answered at the same clock value
C5_Witness ==
    \E i, j \in Inv :
        /\ error[i] = "timeout"
        /\ pc[i] = "done"
        /\ EmptySuccess(j)
        /\ data[j] = <<Far250>>
        /\ now[j] = now[i]

\* C6 as stated: a malformed feature record makes get_earthquake raise
C6_MalformedFeaturePropagates ==
    \A i \in Inv : error[i] = "feature" => outcome[i] = "raised"

\* C6 amended: a malformed feature record is not guarded against per record;
\* the fault raised when its missing part is read is caught by the
\* function-wide handler, and get_earthquake returns the empty list
C6_MalformedFeatureCaught ==
    \A i \in Inv :
        /\ error[i] = "feature" =>
              /\ Finished(i)
              /\ outcome[i] = "returned"
              /\ result[i] = <<>>
              /\ \E k \in DOMAIN data[i] : Faults(data[i][k])
        /\ (Finished(i) /\ \E k \in DOMAIN data[i] : Faults(data[i][k])) =>
              /\ error[i] = "feature"
              /\ result[i] = <<>>

\* a feed whose last feature lacks its geometry, answered with count 0
C6_Witness ==
    \E i \in Inv :
        /\ error[i] = "feature"
        /\ pc[i] = "done"
        /\ data[i] # <<>>
        /\ data[i][Len(data[i])].shape = "no_geometry"
        /\ response[i].count = 0

\* C7 as stated: no record with an absent magnitude precedes a record with a
\* present magnitude, whatever the present magnitudes are
C7_AbsentSortsLowest ==
    \A i \in Inv :
        Finished(i) =>
          \A k, l \in DOMAIN result[i] :
              k < l => ~(/\ result[i][k].magnitude = None
                         /\ result[i][l].magnitude # None)

\* C7 amended: no record with an absent magnitude precedes a record whose
\* magnitude is present and greater than 0
C7_AbsentBelowPositive ==
    \A i \in Inv :
        Finished(i) =>
          \A k, l \in DOMAIN result[i] :
              k < l => ~(/\ result[i][k].magnitude = None
                         /\ result[i][l].magnitude # None
                         /\ result[i][l].magnitude[1] > 0)

\* the feed lists the absent magnitude first, the result lists it last
C7_Witness ==
    \E i \in Inv :
        /\ Finished(i)
        /\ data[i] = <<Edge200, Near50>>
        /\ Len(result[i]) = 2
        /\ result[i][1].magnitude = Some(30)
        /\ result[i][2].magnitude = None

\* what one invocation returns when it runs alone on the answer it received
RECURSIVE Kept(_)
Kept(feed) ==
    IF feed = <<>> THEN <<>>
    ELSE LET f == feed[Len(feed)]
             before == Kept(SubSeq(feed, 1, Len(feed) - 1))
         IN  IF Within200(f) THEN Append(before, earthquake_info(f))
             ELSE before

Alone(i) ==
    IF error[i] \in {"network", "timeout", "http_status", "payload"}
    THEN <<>>
    ELSE IF \E k \in DOMAIN data[i] : Faults(data[i][k]) THEN <<>>
    ELSE SortDescending(Kept(data[i]))

\* C8: whatever the interleaving of invocations, each returns what it would
\* return alone on the feed answer it received
C8_NoStateBetweenCalls ==
    \A i \in Inv : Finished(i) => result[i] = Alone(i)

\* one invocation has returned a record while another is inside its loop
\* with a record of its own
C8_Witness ==
    \E i, j \in Inv :
        /\ i # j
        /\ Finished(j)
        /\ result[j] # <<>>
        /\ pc[i] = "loop"
        /\ nearby[i] # <<>>

\* C9: every invocation that was started ends up having returned and answered
\* (from some point on each one is either never started or done); none is
\* blocked past the 10 s timeout, and a timeout yields the empty list
C9_EventuallyReturns ==
    /\ <>[](\A i \in Inv : pc[i] \in {"idle", "done"})
    /\ [](\A i \in Inv :
            /\ waited[i] <= 10
            /\ error[i] = "timeout" =>
                  (outcome[i] = "returned" /\ result[i] = <<>>))

C9_Witness ==
    \E i \in Inv :
        /\ error[i] = "timeout"
        /\ pc[i] = "done"
        /\ response[i].count = 0

\* C10: the time of every record is the feed's epoch-millisecond timestamp
\* rendered in UTC, whatever the process's time zone
C10_TimeIsUTC ==
    \A i \in Inv :
        Finished(i) =>
          \A k \in DOMAIN result[i] : \A m \in DOMAIN data[i] :
              (data[i][m].place = result[i][k].place
                  /\ data[i][m].time # None) =>
                 result[i][k].time =
                     strftime(BrokenDown(data[i][m].time[1] \div 1000))

====
